---- MODULE Spec2Model ----
(***************************************************************************)
(* World streaming and entity registry of src/js/terrain.js (the module    *)
(* that starts at line 739: TerrainManager and Chunk), the boss-tree       *)
(* damage function of the game loop, and the mountain / runway placement   *)
(* of the Chunk constructor.                                               *)
(*                                                                         *)
(* Spec      streaming and registry: update, unregisterTree,               *)
(*           unregisterBaobabTree, unregisterBuilding.  Entities are       *)
(*           objects with an identity; the geometric tests of the Chunk    *)
(*           constructor are inputs (the zone a random position fell in).  *)
(* GenSpec   the mountain and runway placement of consecutive Chunk        *)
(*           constructions, with positions on an integer grid.             *)
(* BossSpec  damageTree on one tree.                                       *)
(***************************************************************************)
EXTENDS Integers, Sequences, FiniteSets, TLC

VARIABLES
    currentChunk,       \* TerrainManager.currentChunk: Unset or <<cx, cz>>
    chunks,             \* TerrainManager.chunks: the Chunk objects, in the
                        \* insertion order of their keys (the for-in order)
    activeTrees,        \* TerrainManager.activeTrees
    activeBaobabTrees,  \* TerrainManager.activeBaobabTrees
    activeBuildings,    \* TerrainManager.activeBuildings
    globalRunways,      \* TerrainManager.globalRunways
    globalMountains,    \* TerrainManager.globalMountains
    scene,              \* the objects currently added to the THREE scene
    handles,            \* the constructor's templates: which are present
    chunkSerial,        \* number of Chunk objects constructed so far
    lastOp,             \* the public operation that returned last, with its argument
    moves,              \* number of update calls that changed the current chunk
    unregCalls,         \* number of unregister* calls made so far
    damageLog,          \* the damageTree calls made so far: damage, return
                        \* value and the tree's currentHP after the call
    budget,             \* the numbers of calls a behaviour may make
    released,           \* history: the objects Chunk.dispose passed to
                        \* scene.remove, in call order
    destroyed,          \* history: the objects gameplay removed from the scene
                        \* and unregistered
    callerArrays,       \* the arrays a caller got from the queries and kept
    flight,             \* the game loop's variables (part_001 26-28) and the
                        \* plane: isCrashed, isTaxiing, readyToLand, the
                        \* pending reset timers, where the plane is
    heightLog           \* history: the getHeight calls made so far, each with
                        \* its arguments, its return value and the number
                        \* of chunks constructed before it

vars == <<currentChunk, chunks, activeTrees, activeBaobabTrees, activeBuildings,
          globalRunways, globalMountains, scene, handles, chunkSerial, lastOp,
          moves, unregCalls, damageLog, budget, heightLog, released, destroyed,
          callerArrays, flight>>

-----------------------------------------------------------------------------
(* Bounds of the model *)

\* chunk-changing update calls in one behaviour
MaxMoves == 2
\* unregister* calls in one behaviour
MaxUnregisters == 1

(* Program constants *)

chunkSize == 1000

\* this.currentChunk = { x: Infinity, z: Infinity }: equal to no coordinate pair
Unset == <<>>

\* Observer positions passed to update: [x, z] (y plays no role).
Positions ==
    { [x |-> 0, z |-> 0], [x |-> 499, z |-> -500], [x |-> 1500, z |-> 0],
      [x |-> -501, z |-> 600] }

-----------------------------------------------------------------------------
(* Sequences as JavaScript arrays *)

\* arr.filter(t => t !== e)
Without(arr, e) == SelectSeq(arr, LAMBDA t : t # e)

\* arr.indexOf(e): 0 when absent (JavaScript: -1), else the first 1-based index
IndexOf(arr, e) ==
    IF \E i \in 1..Len(arr) : arr[i] = e
    THEN CHOOSE i \in 1..Len(arr) : arr[i] = e /\ \A j \in 1..(i-1) : arr[j] # e
    ELSE 0

\* arr.splice(i, 1)
Splice(arr, i) == SubSeq(arr, 1, i-1) \o SubSeq(arr, i+1, Len(arr))

\* Mutant of RemoveFirst: splice without the idx >= 0 test; splice(-1, 1)
\* removes the last element.
RemoveFirstUnchecked(arr, e) ==
    LET idx == IndexOf(arr, e)
    IN  IF idx > 0 THEN Splice(arr, idx) ELSE SubSeq(arr, 1, Len(arr) - 1)

\* const idx = arr.indexOf(e); if (idx >= 0) arr.splice(idx, 1);
RemoveFirst(arr, e) ==
    LET idx == IndexOf(arr, e) IN IF idx > 0 THEN Splice(arr, idx) ELSE arr

Range(arr) == { arr[i] : i \in 1..Len(arr) }

Count(arr, e) == Cardinality({ i \in 1..Len(arr) : arr[i] = e })

-----------------------------------------------------------------------------
(* Entities.  An object is identified by the Chunk construction that       *)
(* created it (owner: the chunk's serial), its kind and its rank among the *)
(* objects of that kind the construction created.  ref is userData.chunk:  *)
(* TRUE when the object carries the back-reference to its chunk.           *)

(* zone stands for the object's position: the outcome of the geometric     *)
(* tests the constructor applies to it.                                    *)

Entity(kind, serial, n, ref, zone) ==
    [kind |-> kind, owner |-> serial, n |-> n, ref |-> ref, zone |-> zone]

\* this.mountain === null / no object
NoEntity == [kind |-> "none", owner |-> 0, n |-> 0, ref |-> FALSE, zone |-> "open"]

\* Mutant of ChunkCoord: the half-chunk shift is left out.
ChunkCoordNoShift(pos) == << pos.x \div chunkSize, pos.z \div chunkSize >>

\* Mutant of ChunkCoord: the quotient truncated towards zero instead of
\* Math.floor.
ChunkCoordTruncated(pos) ==
    LET Trunc(n) == IF n >= 0 THEN n \div chunkSize ELSE -((-n) \div chunkSize)
    IN  << Trunc(pos.x + chunkSize \div 2), Trunc(pos.z + chunkSize \div 2) >>

\* Math.floor((pos.x + this.chunkSize / 2) / this.chunkSize), on both axes
ChunkCoord(pos) ==
    << (pos.x + chunkSize \div 2) \div chunkSize,
       (pos.z + chunkSize \div 2) \div chunkSize >>

\* the keys the double loop of updateChunks visits, in its order
WindowKeys(cx, cz) ==
    << <<cx-1, cz-1>>, <<cx-1, cz>>, <<cx-1, cz+1>>,
       <<cx,   cz-1>>, <<cx,   cz>>, <<cx,   cz+1>>,
       <<cx+1, cz-1>>, <<cx+1, cz>>, <<cx+1, cz+1>> >>

-----------------------------------------------------------------------------
(* Random inputs of one Chunk construction.  Every Math.random() position  *)
(* is represented by the zone it falls in:                                 *)
(*   "exclusion"    inside the origin chunk's starting-runway rectangle    *)
(*   "water"        ground below the step's water threshold                *)
(*   "nearMountain" within the step's mountain clearance                   *)
(*   "nearRunway"   within the step's runway clearance                     *)
(*   "overlap"      (buildings) AABB-overlapping an already placed one     *)
(*   "open"         none of these                                          *)
(* scatter / boss / ring / city: one zone per loop iteration; fallback:    *)
(* the ground under the force-placed building.                             *)

Rich ==
    [ scatter  |-> << "open", "nearMountain", "nearRunway" >>,
      boss     |-> << "open" >>,
      ring     |-> << "open", "nearRunway" >>,
      city     |-> << "open", "overlap", "open", "nearMountain", "open" >>,
      fallback |-> "land" ]

Lean ==
    [ scatter  |-> << "water" >>,
      boss     |-> << "exclusion" >>,
      ring     |-> << "water" >>,
      city     |-> << "nearRunway", "water" >>,
      fallback |-> "land" ]

Barren ==
    [ scatter  |-> << "water" >>,
      boss     |-> << "water" >>,
      ring     |-> << >>,
      city     |-> << "water" >>,
      fallback |-> "water" ]

\* The random stream of one update call: the draws of the chunks it
\* constructs, in construction order, repeated cyclically.
Streams ==
    { << Barren, Rich, Barren, Lean, Barren, Barren, Barren, Lean, Barren >>,
      << Lean, Barren, Barren >> }

DrawAt(rnd, i) == rnd[((i - 1) % Len(rnd)) + 1]

\* The templates handed to the TerrainManager constructor.
HandleSets ==
    { [treeModel |-> TRUE,  baobabTreeModel |-> TRUE,
       runwayTexture |-> TRUE,  buildingModels |-> TRUE],
      [treeModel |-> FALSE, baobabTreeModel |-> FALSE,
       runwayTexture |-> FALSE, buildingModels |-> FALSE] }

\* A caller's kept array: held tells that the caller keeps one, arr is its
\* content; live tells that it is still the array the manager's field refers
\* to, so that the manager's in-place changes show in it.
NoArray == [held |-> FALSE, live |-> FALSE, arr |-> << >>]

\* No query result has been kept.
NothingKept ==
    [activeTrees |-> NoArray, activeBaobabTrees |-> NoArray,
     activeBuildings |-> NoArray, runways |-> NoArray, mountains |-> NoArray]

-----------------------------------------------------------------------------
(* The manager's mutable state as one value, threaded through the          *)
(* operators below.                                                        *)

World ==
    [ currentChunk |-> currentChunk,
      chunks |-> chunks, activeTrees |-> activeTrees,
      activeBaobabTrees |-> activeBaobabTrees, activeBuildings |-> activeBuildings,
      globalRunways |-> globalRunways, globalMountains |-> globalMountains,
      scene |-> scene, serial |-> chunkSerial,
      released |-> released, destroyed |-> destroyed, kept |-> callerArrays ]

\* the keys of this.chunks
LoadedKeys(chs) == { chs[i].key : i \in 1..Len(chs) }

\* the places in this.chunks of the chunk with this serial (none when it
\* has been deleted)
PlacesOfSerial(chs, s) == { i \in 1..Len(chs) : chs[i].serial = s }

\* this.chunks[key], for a loaded key
ChunkAt(chs, key) == chs[CHOOSE i \in 1..Len(chs) : chs[i].key = key]

-----------------------------------------------------------------------------
(* TerrainManager register* / unregister* *)

\* this.activeBuildings.push(building): a change of the array in place
registerBuilding(w, b) ==
    [w EXCEPT !.activeBuildings = Append(@, b),
              !.kept.activeBuildings.arr =
                  IF w.kept.activeBuildings.live THEN Append(@, b) ELSE @]

registerRunway(w, r) == [w EXCEPT !.globalRunways = Append(@, r)]

registerMountain(w, m) == [w EXCEPT !.globalMountains = Append(@, m)]

\* Mutant of unregisterRunway: the runway stays in globalRunways.
unregisterRunwayKeeps(w, r) == w

unregisterRunway(w, r) == [w EXCEPT !.globalRunways = Without(@, r)]

unregisterMountain(w, m) == [w EXCEPT !.globalMountains = Without(@, m)]

\* userData.chunk.<list>: the list of the chunk the object refers to.  A
\* disposed chunk's lists are empty, so a reference to it changes nothing.
SpliceFromChunk(w, e, list) ==
    IF e.ref /\ PlacesOfSerial(w.chunks, e.owner) # {}
    THEN LET k == CHOOSE k \in PlacesOfSerial(w.chunks, e.owner) : TRUE
         IN  [w EXCEPT !.chunks[k][list] = RemoveFirst(@, e)]
    ELSE w

\* this.activeX = this.activeX.filter(...) makes the field refer to a new
\* array; an array handed out before is no longer the field's array.
unregisterTree(w, tree) ==
    SpliceFromChunk([w EXCEPT !.activeTrees = Without(@, tree),
                              !.kept.activeTrees.live = FALSE], tree, "trees")

unregisterBaobabTree(w, tree) ==
    SpliceFromChunk([w EXCEPT !.activeBaobabTrees = Without(@, tree),
                              !.kept.activeBaobabTrees.live = FALSE],
                    tree, "baobabTrees")

unregisterBuilding(w, building) ==
    SpliceFromChunk([w EXCEPT !.activeBuildings = Without(@, building),
                              !.kept.activeBuildings.live = FALSE],
                    building, "buildings")

-----------------------------------------------------------------------------
(* Chunk constructor, terrain.js 905-1486.  this.* lists are the fields of *)
(* the chunk record; scene.add / scene.remove act on w.scene.              *)

\* Mutant of ScatterTrees: the scatter loop runs without a tree template.
ScatterTreesUnguarded(serial, key, d) ==
    SelectSeq([ i \in 1..Len(d.scatter) |->
                   Entity("tree", serial, i, TRUE, d.scatter[i]) ],
              LAMBDA t : ~(key = <<0, 0>> /\ t.zone = "exclusion")
                         /\ t.zone # "water")

\* Step 2: the scatter loop.  A tree is created unless its position is in
\* the origin chunk's exclusion rectangle or its ground is not above -1.
ScatterTrees(serial, key, d) ==
    IF handles.treeModel
    THEN SelectSeq([ i \in 1..Len(d.scatter) |->
                        Entity("tree", serial, i, TRUE, d.scatter[i]) ],
                   LAMBDA t : ~(key = <<0, 0>> /\ t.zone = "exclusion")
                              /\ t.zone # "water")
    ELSE << >>

\* Step 3: the boss-tree scatter loop.
ScatterBaobabs(serial, key, d) ==
    IF handles.baobabTreeModel
    THEN SelectSeq([ i \in 1..Len(d.boss) |->
                        Entity("baobab", serial, i, TRUE, d.boss[i]) ],
                   LAMBDA t : ~(key = <<0, 0>> /\ t.zone = "exclusion")
                              /\ t.zone # "water")
    ELSE << >>

\* Step 4b: the ring of pine trees around the mountain.  The clone gets no
\* userData.chunk (lines 1264-1273).
RingTrees(serial, d) ==
    IF handles.treeModel
    THEN SelectSeq([ i \in 1..Len(d.ring) |->
                        Entity("tree", serial, Len(d.scatter) + i, FALSE, d.ring[i]) ],
                   LAMBDA t : t.zone # "water")
    ELSE << >>

\* "Clear trees near mountain" / "Clear trees in runway area": the trees
\* of this.trees within the clearance are removed from scene and list.
ClearTrees(trees, zone) == SelectSeq(trees, LAMBDA t : t.zone # zone)

\* placeBuilding(bx, bz): no prefab, or an overlap with a building of
\* this.buildings, places nothing; else the building is added to the scene,
\* to this.buildings and to the manager's activeBuildings.
placeBuilding(w, k, b) ==
    IF ~handles.buildingModels THEN w
    ELSE IF b.zone = "overlap" /\ Len(w.chunks[k].buildings) > 0 THEN w
    ELSE registerBuilding(
            [w EXCEPT !.scene = @ \cup {b},
                      !.chunks[k].buildings = Append(@, b)], b)

\* Step 6: the city loops.  A candidate within 100 of a runway of the
\* chunk, within the mountain's clearance, or on ground below -2 is skipped.
RECURSIVE PlaceCity(_, _, _, _)
PlaceCity(w, k, d, i) ==
    IF i > Len(d.city) THEN w
    ELSE LET c == w.chunks[k]
             b == Entity("building", c.serial, i, TRUE, d.city[i])
             skip == \/ (b.zone = "nearRunway" /\ Len(c.runways) > 0)
                     \/ (b.zone = "nearMountain" /\ c.mountain # NoEntity)
                     \/ b.zone = "water"
         IN  PlaceCity(IF skip THEN w ELSE placeBuilding(w, k, b), k, d, i + 1)

\* "Fallback: ensure at least one building per chunk"
FallbackBuilding(w, k, d) ==
    IF Len(w.chunks[k].buildings) = 0 /\ d.fallback = "land"
    THEN placeBuilding(w, k,
            Entity("building", w.chunks[k].serial, Len(d.city) + 1, TRUE, "open"))
    ELSE w

\* Step 5: the runway, built only with a runway texture.
PlaceRunway(w, k) ==
    IF handles.runwayTexture
    THEN LET c  == w.chunks[k]
             rw == Entity("runway", c.serial, 1, FALSE, "open")
             cleared == ClearTrees(c.trees, "nearRunway")
         IN  registerRunway(
                [w EXCEPT !.scene = (@ \cup {rw}) \ (Range(c.trees) \ Range(cleared)),
                          !.chunks[k].runways = Append(@, rw),
                          !.chunks[k].trees = cleared], rw)
    ELSE w

\* Step 4: the mountain, registered, then clearing and ring trees.
PlaceMountain(w, k, d) ==
    LET c  == w.chunks[k]
        m  == Entity("mountain", c.serial, 1, FALSE, "open")
        cleared == ClearTrees(c.trees, "nearMountain")
        ring == RingTrees(c.serial, d)
    IN  registerMountain(
            [w EXCEPT !.scene = ((@ \cup {m}) \ (Range(c.trees) \ Range(cleared)))
                                    \cup Range(ring),
                      !.chunks[k].mountain = m,
                      !.chunks[k].trees = cleared \o ring], m)

\* this.chunks[key] = new Chunk(x, z, ...), with the random draw d
NewChunk(w, key, d) ==
    LET serial == w.serial + 1
        mesh   == Entity("mesh", serial, 1, FALSE, "open")
        trees  == ScatterTrees(serial, key, d)
        boss   == ScatterBaobabs(serial, key, d)
        c0     == [ key |-> key, serial |-> serial, mesh |-> mesh, trees |-> trees,
                    baobabTrees |-> boss, runways |-> << >>,
                    mountain |-> NoEntity, buildings |-> << >> ]
        k      == Len(w.chunks) + 1
        w0     == [w EXCEPT !.serial = serial,
                            !.chunks = Append(@, c0),
                            !.scene = @ \cup {mesh} \cup Range(trees) \cup Range(boss)]
    IN  FallbackBuilding(PlaceCity(PlaceRunway(PlaceMountain(w0, k, d), k), k, d, 1),
                         k, d)

-----------------------------------------------------------------------------
(* Chunk.dispose, terrain.js 1488-1539 *)

\* for (const b of this.buildings) { manager.unregisterBuilding(b); scene.remove(b) }
\* The array iterator reads this.buildings[i - 1] and stops at its current
\* length; unregisterBuilding splices b out of that same array.
RECURSIVE DisposeBuildings(_, _, _)
DisposeBuildings(w, k, i) ==
    LET arr == w.chunks[k].buildings
    IN  IF i > Len(arr) THEN w
        ELSE LET b  == arr[i]
                 w1 == unregisterBuilding(w, b)
             IN  DisposeBuildings([w1 EXCEPT !.scene = @ \ {b},
                                             !.released = Append(@, b)], k, i + 1)

\* for (const r of this.runways) { manager.unregisterRunway(r); scene.remove(r) }
RECURSIVE DisposeRunways(_, _, _)
DisposeRunways(w, k, i) ==
    LET arr == w.chunks[k].runways
    IN  IF i > Len(arr) THEN w
        ELSE DisposeRunways([unregisterRunway(w, arr[i]) EXCEPT !.scene = @ \ {arr[i]},
                                                                !.released = Append(@, arr[i])],
                            k, i + 1)

DisposeMountain(w, k) ==
    LET m == w.chunks[k].mountain
    IN  IF m # NoEntity
        THEN [unregisterMountain(w, m) EXCEPT !.scene = @ \ {m},
                                              !.released = Append(@, m),
                                              !.chunks[k].mountain = NoEntity]
        ELSE w

\* this.chunks[key].dispose(), for the chunk at place k of this.chunks
Dispose(w, k) ==
    LET c  == w.chunks[k]
        w1 == [w EXCEPT !.scene = ((@ \ {c.mesh}) \ Range(c.trees)) \ Range(c.baobabTrees),
                        !.released = (Append(@, c.mesh) \o c.trees) \o c.baobabTrees,
                        !.chunks[k].trees = << >>,
                        !.chunks[k].baobabTrees = << >>]
        w2 == [DisposeRunways(w1, k, 1) EXCEPT !.chunks[k].runways = << >>]
        w3 == DisposeMountain(w2, k)
    IN  [DisposeBuildings(w3, k, 1) EXCEPT !.chunks[k].buildings = << >>]

-----------------------------------------------------------------------------
(* TerrainManager.updateChunks, terrain.js 786-830 *)

\* Mutant of LoadWindow: the loaded test looks up the x coordinate alone,
\* which is no key, so a Chunk is constructed for every key of the window.
RECURSIVE LoadWindowAlways(_, _, _, _, _)
LoadWindowAlways(w, keys, rnd, first, i) ==
    IF i > Len(keys) THEN w
    ELSE IF << keys[i][1] >> \in LoadedKeys(w.chunks)
    THEN LoadWindowAlways(w, keys, rnd, first, i + 1)
    ELSE LoadWindowAlways(NewChunk(w, keys[i], DrawAt(rnd, w.serial - first + 1)),
                          keys, rnd, first, i + 1)

\* The double loop over the window:
\*   if (!this.chunks[key]) this.chunks[key] = new Chunk(...)
\* first: the serial before the call, so that w.serial - first chunks have
\* been constructed by this call.
RECURSIVE LoadWindow(_, _, _, _, _)
LoadWindow(w, keys, rnd, first, i) ==
    IF i > Len(keys) THEN w
    ELSE IF keys[i] \in LoadedKeys(w.chunks)
    THEN LoadWindow(w, keys, rnd, first, i + 1)
    ELSE LoadWindow(NewChunk(w, keys[i], DrawAt(rnd, w.serial - first + 1)),
                    keys, rnd, first, i + 1)

\* Mutant of UnloadOld: the iteration steps over the key that follows a
\* deleted one.
RECURSIVE UnloadOldSkipping(_, _, _)
UnloadOldSkipping(w, keep, i) ==
    IF i > Len(w.chunks) THEN w
    ELSE IF w.chunks[i].key \in keep THEN UnloadOldSkipping(w, keep, i + 1)
    ELSE UnloadOldSkipping([Dispose(w, i) EXCEPT !.chunks = Splice(@, i)], keep, i + 1)

\* Mutant of UnloadOld: the disposed chunk is not deleted from this.chunks.
RECURSIVE UnloadOldKeepsEntry(_, _, _)
UnloadOldKeepsEntry(w, keep, i) ==
    IF i > Len(w.chunks) THEN w
    ELSE IF w.chunks[i].key \in keep THEN UnloadOldKeepsEntry(w, keep, i + 1)
    ELSE UnloadOldKeepsEntry(Dispose(w, i), keep, i + 1)

\* "Unload old": for (const key in this.chunks) dispose and delete every
\* chunk whose key is not kept; i is the place of the next key to visit.
RECURSIVE UnloadOld(_, _, _)
UnloadOld(w, keep, i) ==
    IF i > Len(w.chunks) THEN w
    ELSE IF w.chunks[i].key \in keep THEN UnloadOld(w, keep, i + 1)
    ELSE UnloadOld([Dispose(w, i) EXCEPT !.chunks = Splice(@, i)], keep, i)

\* the concatenation of one list of every loaded chunk, in for-in order
RECURSIVE Gather(_, _, _)
Gather(chs, list, i) ==
    IF i > Len(chs) THEN << >>
    ELSE chs[i][list] \o Gather(chs, list, i + 1)

\* Mutant of RebuildActive: the active lists are not emptied first.
RebuildActiveNoReset(w) ==
    [w EXCEPT !.activeTrees = @ \o Gather(w.chunks, "trees", 1),
              !.activeBaobabTrees = @ \o Gather(w.chunks, "baobabTrees", 1),
              !.activeBuildings = @ \o Gather(w.chunks, "buildings", 1)]

\* "Rebuild active trees list for collision": each field is assigned a new
\* empty array, which is then filled.
RebuildActive(w) ==
    [w EXCEPT !.activeTrees = Gather(w.chunks, "trees", 1),
              !.activeBaobabTrees = Gather(w.chunks, "baobabTrees", 1),
              !.activeBuildings = Gather(w.chunks, "buildings", 1),
              !.kept.activeTrees.live = FALSE,
              !.kept.activeBaobabTrees.live = FALSE,
              !.kept.activeBuildings.live = FALSE]

updateChunks(w, centerCX, centerCZ, rnd) ==
    LET keys   == WindowKeys(centerCX, centerCZ)
        loaded == LoadWindow(w, keys, rnd, w.serial, 1)
        kept   == UnloadOld(loaded, Range(keys), 1)
    IN  RebuildActive(kept)

\* Mutant of update: the chunks are updated on every call.
updateAlways(w, pos, rnd) ==
    updateChunks([w EXCEPT !.currentChunk = ChunkCoord(pos)],
                 ChunkCoord(pos)[1], ChunkCoord(pos)[2], rnd)

\* TerrainManager.update(pos), terrain.js 774-784; rnd: the random stream
\* the call consumes
update(w, pos, rnd) ==
    LET c == ChunkCoord(pos)
    IN  IF w.currentChunk # c
        THEN updateChunks([w EXCEPT !.currentChunk = c], c[1], c[2], rnd)
        ELSE w

-----------------------------------------------------------------------------
(* Aggregate queries, terrain.js 832-854 *)

getTrees == [activeTrees |-> activeTrees, activeBaobabTrees |-> activeBaobabTrees]

getRunways == Gather(chunks, "runways", 1)

getMountains ==
    SelectSeq([ i \in 1..Len(chunks) |-> chunks[i].mountain ], LAMBDA m : m # NoEntity)

getBuildings == activeBuildings

-----------------------------------------------------------------------------
(* Actions: the public operations *)

SetWorld(w) ==
    /\ currentChunk' = w.currentChunk
    /\ chunks' = w.chunks
    /\ activeTrees' = w.activeTrees
    /\ activeBaobabTrees' = w.activeBaobabTrees
    /\ activeBuildings' = w.activeBuildings
    /\ globalRunways' = w.globalRunways
    /\ globalMountains' = w.globalMountains
    /\ scene' = w.scene
    /\ chunkSerial' = w.serial
    /\ released' = w.released
    /\ destroyed' = w.destroyed
    /\ callerArrays' = w.kept

Op(name, pos, e) == [op |-> name, pos |-> pos, e |-> e]

\* The game loop's variables as declared (part_001 10-28), before init has
\* loaded the plane.  climbed, explosions and event are history: whether the
\* plane has been above 30 since it last touched down or respawned, the
\* explosions triggerCrash made since isCrashed was last cleared, and what
\* the last step of the game loop did.
NoPlane ==
    [ plane |-> FALSE, isCrashed |-> FALSE, isTaxiing |-> FALSE,
      readyToLand |-> FALSE, where |-> "low", speed |-> 0, taxiLeft |-> 0,
      timers |-> 0, explosions |-> 0, climbed |-> FALSE, event |-> "none" ]

\* new TerrainManager(scene, ...), with templates from hs, in a behaviour
\* that may make the calls of budget b
Start(b, hs) ==
    /\ currentChunk = Unset
    /\ chunks = << >>
    /\ activeTrees = << >>
    /\ activeBaobabTrees = << >>
    /\ activeBuildings = << >>
    /\ globalRunways = << >>
    /\ globalMountains = << >>
    /\ scene = {}
    /\ handles \in hs
    /\ chunkSerial = 0
    /\ lastOp = Op("new", [x |-> 0, z |-> 0], NoEntity)
    /\ moves = 0
    /\ unregCalls = 0
    /\ damageLog = << >>
    /\ budget = b
    /\ released = << >>
    /\ destroyed = {}
    /\ callerArrays = NothingKept
    /\ flight = NoPlane
    /\ heightLog = << >>

Init == Start([moves |-> MaxMoves, unregisters |-> MaxUnregisters], HandleSets)

\* A call of update(pos).  A call that changes the current chunk counts as
\* a move, and the behaviour's budget bounds their number.
Update(pos, rnd) ==
    LET moving == ChunkCoord(pos) # currentChunk
    IN  /\ moving => moves < budget.moves
        /\ moves' = IF moving THEN moves + 1 ELSE moves
        /\ lastOp' = Op("update", pos, NoEntity)
        /\ SetWorld(update(World, pos, rnd))
        /\ UNCHANGED <<handles, unregCalls, damageLog, flight, budget, heightLog>>

\* The objects gameplay passes to unregister*: those a query returned, now
\* or before the last unregister call.
Targets(list) ==
    Range(list) \cup (IF lastOp.e # NoEntity THEN {lastOp.e} ELSE {})

\* scene.remove(e), which every caller of unregister* in the game loop does
\* right before the call (part_001 1095, 1141, 1165)
Destroy(w, e) == [w EXCEPT !.scene = @ \ {e}, !.destroyed = @ \cup {e}]

Unregister(name, e, w) ==
    /\ unregCalls < budget.unregisters
    /\ unregCalls' = unregCalls + 1
    /\ lastOp' = Op(name, [x |-> 0, z |-> 0], e)
    /\ SetWorld(w)
    /\ UNCHANGED <<handles, moves, damageLog, flight, budget, heightLog>>

\* activeTrees.splice(j, 1) / activeBaobabTrees.splice(j, 1): the game loop
\* takes the tree out of the array it got from getTrees (part_001 1097, 1143)
LocalSplice(w, name, e) ==
    [w EXCEPT !.kept[name].arr = IF w.kept[name].held THEN RemoveFirst(@, e) ELSE @]

UnregisterTree ==
    \E e \in Targets(activeTrees) :
        Unregister("unregisterTree", e,
                   LocalSplice(unregisterTree(Destroy(World, e), e), "activeTrees", e))

UnregisterBaobabTree ==
    \E e \in Targets(activeBaobabTrees) :
        Unregister("unregisterBaobabTree", e,
                   LocalSplice(unregisterBaobabTree(Destroy(World, e), e),
                               "activeBaobabTrees", e))

UnregisterBuilding ==
    \E e \in Targets(activeBuildings) :
        Unregister("unregisterBuilding", e, unregisterBuilding(Destroy(World, e), e))

UpdateAny == \E pos \in Positions, rnd \in Streams : Update(pos, rnd)

Next ==
    \/ UpdateAny
    \/ UnregisterTree
    \/ UnregisterBaobabTree
    \/ UnregisterBuilding

Spec == Init /\ [][Next]_vars

-----------------------------------------------------------------------------
(* Properties of the streaming and the registry (Spec) *)

\* the square window of chunk coordinates centred on c
Square(c) == { <<x, z>> : x \in (c[1] - 1)..(c[1] + 1), z \in (c[2] - 1)..(c[2] + 1) }

IsUnregister == lastOp.op \in {"unregisterTree", "unregisterBaobabTree", "unregisterBuilding"}

\* the registry collection and the chunk list an unregister operation acts on
RegistryOf(op) ==
    CASE op = "unregisterTree" -> activeTrees
      [] op = "unregisterBaobabTree" -> activeBaobabTrees
      [] OTHER -> activeBuildings

ListOf(op) ==
    CASE op = "unregisterTree" -> "trees"
      [] op = "unregisterBaobabTree" -> "baobabTrees"
      [] OTHER -> "buildings"

\* every object in a registry collection or returned by a query
Registered ==
    Range(activeTrees) \cup Range(activeBaobabTrees) \cup Range(activeBuildings)
    \cup Range(globalRunways) \cup Range(globalMountains)
    \cup Range(getTrees.activeTrees) \cup Range(getTrees.activeBaobabTrees)
    \cup Range(getBuildings) \cup Range(getRunways) \cup Range(getMountains)

LoadedSerials == { chunks[i].serial : i \in 1..Len(chunks) }

\* the mountains the loaded chunks own, as a list
OwnedMountains ==
    SelectSeq([ i \in 1..Len(chunks) |-> chunks[i].mountain ], LAMBDA m : m # NoEntity)

\* C1: after every update(pos), the first included, the loaded chunk
\* coordinates are exactly the 3x3 square centred on the chunk coordinate of
\* pos, each loaded once.
C1_WindowInvariant ==
    lastOp.op = "update" =>
        /\ LoadedKeys(chunks) = Square(ChunkCoord(lastOp.pos))
        /\ Len(chunks) = Cardinality(LoadedKeys(chunks))

\* C1 witness: an update that jumped from another window to the one centred
\* on (2, 0) has returned.
C1_Witness ==
    /\ lastOp.op = "update" /\ moves = 2
    /\ currentChunk = <<2, 0>>
    /\ Len(chunks) = 9

\* C2: after unregisterTree / unregisterBaobabTree / unregisterBuilding of
\* an object e, e is neither in the registry collection of its category nor
\* in the list of its owning chunk, when that chunk is still loaded.
C2_UnregisterRemovesBoth ==
    IsUnregister =>
        /\ lastOp.e \notin Range(RegistryOf(lastOp.op))
        /\ \A i \in 1..Len(chunks) :
              chunks[i].serial = lastOp.e.owner =>
                  lastOp.e \notin Range(chunks[i][ListOf(lastOp.op)])

\* C3: no object owned by a disposed chunk is in a registry collection or
\* returned by a query: every such object belongs to a loaded chunk.
C3_DisposalCompleteness ==
    \A e \in Registered : e.owner \in LoadedSerials

\* C3 witness: chunks that owned trees, buildings, a runway and a mountain
\* have been disposed, and other chunks are loaded with registered objects.
C3_Witness ==
    /\ handles.runwayTexture /\ handles.treeModel
    /\ lastOp.op = "update"
    /\ chunkSerial > Len(chunks)
    /\ 2 \notin LoadedSerials
    /\ activeBuildings # << >> /\ globalRunways # << >>

\* C4: between public operations every registry collection holds exactly
\* the objects of the corresponding lists of the loaded chunks.
C4_RegistryIsUnion ==
    /\ Range(activeTrees) = Range(Gather(chunks, "trees", 1))
    /\ Range(activeBaobabTrees) = Range(Gather(chunks, "baobabTrees", 1))
    /\ Range(activeBuildings) = Range(Gather(chunks, "buildings", 1))
    /\ Range(globalRunways) = Range(Gather(chunks, "runways", 1))
    /\ Range(globalMountains) = Range(OwnedMountains)

\* C5: every object a query returns appears once in the query's result and
\* once in the lists of the loaded chunks taken together (once in its own
\* chunk's list, in no other chunk's).
C5_ListedOnce ==
    /\ \A e \in Range(getTrees.activeTrees) :
          Count(getTrees.activeTrees, e) = 1 /\ Count(Gather(chunks, "trees", 1), e) = 1
    /\ \A e \in Range(getTrees.activeBaobabTrees) :
          /\ Count(getTrees.activeBaobabTrees, e) = 1
          /\ Count(Gather(chunks, "baobabTrees", 1), e) = 1
    /\ \A e \in Range(getBuildings) :
          Count(getBuildings, e) = 1 /\ Count(Gather(chunks, "buildings", 1), e) = 1
    /\ \A e \in Range(getRunways) :
          Count(getRunways, e) = 1 /\ Count(Gather(chunks, "runways", 1), e) = 1
    /\ \A e \in Range(getMountains) :
          Count(getMountains, e) = 1 /\ Count(OwnedMountains, e) = 1

\* C5 witness: after a window shift and an unregister call, the queries
\* return trees, boss trees and buildings of several chunks.
C5_Witness ==
    /\ moves = 2 /\ unregCalls = 1
    /\ Len(getTrees.activeTrees) > 1 /\ Len(getTrees.activeBaobabTrees) > 1
    /\ Len(getBuildings) > 3 /\ Len(getRunways) = 9

\* C6: an update never regenerates a loaded coordinate that stays in the
\* keep-set: a key loaded before and after an operation keeps its Chunk
\* instance, an update that does not change the observer's chunk constructs
\* nothing, and an update constructs one Chunk per key that was not loaded.
C6_NoRegeneration ==
    [][ /\ \A i \in 1..Len(chunks), j \in 1..Len(chunks') :
              chunks[i].key = chunks'[j].key => chunks[i].serial = chunks'[j].serial
        /\ (lastOp'.op = "update" /\ ChunkCoord(lastOp'.pos) = currentChunk)
              => chunkSerial' = chunkSerial
        /\ chunkSerial' - chunkSerial
              = Cardinality(LoadedKeys(chunks') \ LoadedKeys(chunks)) ]_vars

\* C6 witness: after a window shift, chunks of the first window are loaded
\* beside chunks constructed by the shift.
C6_Witness ==
    /\ moves = 2 /\ lastOp.op = "update"
    /\ \E i, j \in 1..Len(chunks) : chunks[i].serial <= 9 /\ chunks[j].serial > 9

\* C7: update(pos) with a position in the current chunk changes nothing:
\* current chunk, chunk map, chunk lists, registry collections and scene
\* stay as they are and no Chunk is constructed.
C7_SameChunkNoOp ==
    [][ (lastOp'.op = "update" /\ ChunkCoord(lastOp'.pos) = currentChunk)
            => UNCHANGED <<currentChunk, chunks, activeTrees, activeBaobabTrees,
                           activeBuildings, globalRunways, globalMountains, scene,
                           chunkSerial>> ]_vars

\* C7 witness: update was called with another position of the current
\* chunk after an object had been unregistered.
C7_Witness ==
    /\ lastOp.op = "update" /\ lastOp.pos = [x |-> 499, z |-> -500]
    /\ moves = 1 /\ unregCalls = 1
    /\ currentChunk = <<0, 0>>

Mesh(serial) == Entity("mesh", serial, 1, FALSE, "open")

\* C8: with chunk size 1000 the first update at (0,0,0) loads exactly the 9
\* chunks {-1,0,1} x {-1,0,1}; a following update at (1500,0,0) makes (2,0)
\* the centre and {1,2,3} x {-1,0,1} the loaded set, disposes the chunks
\* (-1,*) and constructs the chunks (3,*).
C8_Scenario ==
    [][ /\ (currentChunk = Unset /\ lastOp'.op = "update"
               /\ lastOp'.pos = [x |-> 0, z |-> 0])
            => /\ LoadedKeys(chunks') = (-1..1) \X (-1..1)
               /\ Len(chunks') = 9
        /\ (currentChunk = <<0, 0>> /\ moves = 1 /\ lastOp'.op = "update"
               /\ lastOp'.pos = [x |-> 1500, z |-> 0])
            => /\ chunkSize = 1000
               /\ currentChunk' = <<2, 0>>
               /\ LoadedKeys(chunks') = (1..3) \X (-1..1)
               /\ \A z \in -1..1 :
                     /\ Mesh(ChunkAt(chunks, <<-1, z>>).serial) \in scene
                     /\ Mesh(ChunkAt(chunks, <<-1, z>>).serial) \notin scene'
                     /\ ChunkAt(chunks, <<-1, z>>).serial \notin
                            { chunks'[i].serial : i \in 1..Len(chunks') }
                     /\ ChunkAt(chunks', <<3, z>>).serial > chunkSerial
                     /\ Mesh(ChunkAt(chunks', <<3, z>>).serial) \in scene' ]_vars

\* C8 witness: the second update of the scenario has returned: the window
\* is centred on (2, 0) and column 1 still holds chunks of the first window.
C8_Witness ==
    /\ lastOp = Op("update", [x |-> 1500, z |-> 0], NoEntity)
    /\ currentChunk = <<2, 0>>
    /\ <<1, 0>> \in LoadedKeys(chunks)
    /\ ChunkAt(chunks, <<1, 0>>).serial = 8

-----------------------------------------------------------------------------
(* Mountain and runway placement of the Chunk constructor, terrain.js      *)
(* 1076-1126 and 1298-1351, on an integer grid.  In GenSpec globalMountains *)
(* and globalRunways hold the placed objects as records                    *)
(*   [x, z, baseRadius | safeRadius, chunk, fallback, tries]               *)
(* where x, z are position.x / position.z, chunk is the key of the         *)
(* constructing chunk, fallback tells that the fallback branch positioned  *)
(* the object and tries is the number of candidates its retry loop tested. *)

\* chunks constructed in one behaviour of GenSpec
MaxChunks == 2

RUNWAY_SAFE_RADIUS == 120
MOUNTAIN_RADIUS_ESTIMATE == 150
RUNWAY_MOUNTAIN_BUFFER == 80
maxMountainAttempts == 12
maxAttempts == 10

Pt(x, z) == [x |-> x, z |-> z]

\* Math.hypot(a.x - b.x, a.z - b.z), squared
DistSq(a, b) == (a.x - b.x) * (a.x - b.x) + (a.z - b.z) * (a.z - b.z)

\* Math.hypot(...) < bound, for a bound that is not negative
Nearer(a, b, bound) == DistSq(a, b) < bound * bound

\* the largest r in lo..hi with r * r <= n
RECURSIVE SqrtBetween(_, _, _)
SqrtBetween(n, lo, hi) ==
    IF lo = hi THEN lo
    ELSE LET mid == (lo + hi + 1) \div 2
         IN  IF mid * mid <= n THEN SqrtBetween(n, mid, hi)
             ELSE SqrtBetween(n, lo, mid - 1)

\* a / b rounded to the nearest integer, b > 0
RoundDiv(a, b) == (2 * a + b) \div (2 * b)

\* Mutant of Opposite: the point at distance dist from centre on the
\* target's side.
SameSide(centre, target, dist) ==
    LET dx == target.x - centre.x
        dz == target.z - centre.z
        norm10 == SqrtBetween(100 * (dx * dx + dz * dz), 0, 46340)
    IN  IF dx = 0 /\ dz = 0 THEN Pt(centre.x + dist, centre.z)
        ELSE Pt(centre.x + RoundDiv(10 * dist * dx, norm10),
                centre.z + RoundDiv(10 * dist * dz, norm10))

\* The point at distance dist from centre, diametrically opposite target:
\*   angle = Math.atan2(target.z - centre.z, target.x - centre.x) + Math.PI
\*   centre + (Math.cos(angle), Math.sin(angle)) * dist
\* rounded to the grid.  atan2(0, 0) is 0, which gives centre - (dist, 0).
Opposite(centre, target, dist) ==
    LET dx == target.x - centre.x
        dz == target.z - centre.z
        norm10 == SqrtBetween(100 * (dx * dx + dz * dz), 0, 46340)
    IN  IF dx = 0 /\ dz = 0 THEN Pt(centre.x - dist, centre.z)
        ELSE Pt(centre.x - RoundDiv(10 * dist * dx, norm10),
                centre.z - RoundDiv(10 * dist * dz, norm10))

\* chunkCenterX, chunkCenterZ
ChunkCenter(key) == Pt(key[1] * chunkSize, key[2] * chunkSize)

\* Offsets (cos, sin) * dist of the mountain candidates: dist in [300, 450)
MountainOffsets == { Pt(300, 0), Pt(0, 440), Pt(0, 300), Pt(0, -440) }

\* Offsets of the runway candidates: dist in [100, 300)
RunwayOffsets == { Pt(100, 0), Pt(0, -290), Pt(0, 290), Pt(-200, 0) }

\* maxRadius: the largest peakRadius (40 + Math.random() * 30) of the peaks
PeakRadii == { 40, 60, 70 }

\* The candidates a retry loop draws, one per attempt.
MountainStreams ==
    { [i \in 1..maxMountainAttempts |-> c] : c \in MountainOffsets }
    \cup { [i \in 1..maxMountainAttempts |-> IF i <= 3 THEN Pt(0, -440) ELSE Pt(300, 0)] }

RunwayStreams ==
    { [i \in 1..maxAttempts |-> c] : c \in RunwayOffsets }
    \cup { [i \in 1..maxAttempts |-> IF i <= 9 THEN Pt(0, -290) ELSE Pt(-200, 0)] }

\* Mutant of tooCloseToRunway: the candidate is tested against the runway's
\* safe radius alone.
tooCloseToRunwayRadiusOnly(cand, runwaysForCheck) ==
    \E i \in 1..Len(runwaysForCheck) :
        Nearer(cand, runwaysForCheck[i], RUNWAY_SAFE_RADIUS)

\* the inner loop of the mountain retry loop, lines 1093-1101
tooCloseToRunway(cand, runwaysForCheck) ==
    \E i \in 1..Len(runwaysForCheck) :
        LET r == runwaysForCheck[i]
            runwayRadius == IF r.safeRadius # 0 THEN r.safeRadius ELSE RUNWAY_SAFE_RADIUS
        IN  Nearer(cand, r, MOUNTAIN_RADIUS_ESTIMATE + runwayRadius + RUNWAY_MOUNTAIN_BUFFER)

\* Mutant of MountainAttempts: the loop goes on while candidates are
\* rejected, up to twice the attempts, drawing the stream again.
RECURSIVE MountainAttemptsTwice(_, _, _, _)
MountainAttemptsTwice(center, stream, attempt, runwaysForCheck) ==
    IF attempt > 2 * maxMountainAttempts
    THEN [x |-> center.x, z |-> center.z, placed |-> FALSE, tries |-> attempt - 1]
    ELSE LET draw == stream[((attempt - 1) % maxMountainAttempts) + 1]
             cand == Pt(center.x + draw.x, center.z + draw.z)
         IN  IF ~tooCloseToRunway(cand, runwaysForCheck)
             THEN [x |-> cand.x, z |-> cand.z, placed |-> TRUE, tries |-> attempt]
             ELSE MountainAttemptsTwice(center, stream, attempt + 1, runwaysForCheck)

\* the mountain retry loop, lines 1087-1109: mX, mZ stay the chunk centre
\* until a candidate is accepted
RECURSIVE MountainAttempts(_, _, _, _)
MountainAttempts(center, stream, attempt, runwaysForCheck) ==
    IF attempt > maxMountainAttempts
    THEN [x |-> center.x, z |-> center.z, placed |-> FALSE, tries |-> attempt - 1]
    ELSE LET cand == Pt(center.x + stream[attempt].x, center.z + stream[attempt].z)
         IN  IF ~tooCloseToRunway(cand, runwaysForCheck)
             THEN [x |-> cand.x, z |-> cand.z, placed |-> TRUE, tries |-> attempt]
             ELSE MountainAttempts(center, stream, attempt + 1, runwaysForCheck)

\* for (const x of list) { d = hypot(center - x); if (d < nearestDist) ... }
RECURSIVE Nearest(_, _, _, _, _)
Nearest(list, center, i, nearest, nearestDistSq) ==
    IF i > Len(list) THEN nearest
    ELSE LET d == DistSq(center, list[i])
         IN  IF d < nearestDistSq
             THEN Nearest(list, center, i + 1, list[i], d)
             ELSE Nearest(list, center, i + 1, nearest, nearestDistSq)

\* Step 4, lines 1076-1126 and 1221-1229: the mountain of the chunk at key
NewMountain(key, stream, maxRadius, runwaysForCheck) ==
    LET center == ChunkCenter(key)
        a == MountainAttempts(center, stream, 1, runwaysForCheck)
        byFallback == ~a.placed /\ Len(runwaysForCheck) > 0
        nearestRunway ==
            Nearest(runwaysForCheck, center, 1, runwaysForCheck[1],
                    DistSq(Pt(a.x, a.z), runwaysForCheck[1]))
        p == IF byFallback
             THEN Opposite(center, nearestRunway, (chunkSize * 45) \div 100)
             ELSE Pt(a.x, a.z)
    IN  [x |-> p.x, z |-> p.z, baseRadius |-> (maxRadius * 14) \div 10,
         chunk |-> key, fallback |-> byFallback, tries |-> a.tries]

\* Mutant of tooCloseToMountain: the separation buffer is left out.
tooCloseToMountainNoBuffer(cand, mountainsForCheck) ==
    \E i \in 1..Len(mountainsForCheck) :
        Nearer(cand, mountainsForCheck[i],
               RUNWAY_SAFE_RADIUS + mountainsForCheck[i].baseRadius)

\* the inner loop of the runway retry loop, lines 1320-1328
tooCloseToMountain(cand, mountainsForCheck) ==
    \E i \in 1..Len(mountainsForCheck) :
        LET m == mountainsForCheck[i]
            mRadius == IF m.baseRadius # 0 THEN m.baseRadius ELSE MOUNTAIN_RADIUS_ESTIMATE
        IN  Nearer(cand, m, RUNWAY_SAFE_RADIUS + mRadius + RUNWAY_MOUNTAIN_BUFFER)

\* the runway retry loop, lines 1311-1334: rX, rZ are assigned on every
\* attempt, so after ten failures they hold the last candidate
RECURSIVE RunwayAttempts(_, _, _, _, _)
RunwayAttempts(center, stream, attempt, mountainsForCheck, last) ==
    IF attempt > maxAttempts
    THEN [x |-> last.x, z |-> last.z, placed |-> FALSE, tries |-> attempt - 1]
    ELSE LET cand == Pt(center.x + stream[attempt].x, center.z + stream[attempt].z)
         IN  IF tooCloseToMountain(cand, mountainsForCheck)
             THEN RunwayAttempts(center, stream, attempt + 1, mountainsForCheck, cand)
             ELSE [x |-> cand.x, z |-> cand.z, placed |-> TRUE, tries |-> attempt]

\* Step 5, lines 1298-1351 and 1363-1374: the runway of the chunk at key.
\* nearestDist starts as the distance from (rX, rZ) to the first mountain.
NewRunway(key, stream, mountainsForCheck) ==
    LET center == ChunkCenter(key)
        a == RunwayAttempts(center, stream, 1, mountainsForCheck, center)
        byFallback == ~a.placed /\ Len(mountainsForCheck) > 0
        nearestMountain ==
            Nearest(mountainsForCheck, center, 1, mountainsForCheck[1],
                    DistSq(Pt(a.x, a.z), mountainsForCheck[1]))
        p == IF byFallback
             THEN Opposite(center, nearestMountain, (chunkSize * 30) \div 100)
             ELSE Pt(a.x, a.z)
    IN  [x |-> p.x, z |-> p.z, safeRadius |-> RUNWAY_SAFE_RADIUS,
         chunk |-> key, fallback |-> byFallback, tries |-> a.tries]

\* The state before the first update's load loop constructs its first Chunk.
GenInit ==
    /\ currentChunk = <<0, 0>>
    /\ chunks = << >>
    /\ activeTrees = << >>
    /\ activeBaobabTrees = << >>
    /\ activeBuildings = << >>
    /\ globalRunways = << >>
    /\ globalMountains = << >>
    /\ scene = {}
    /\ handles \in HandleSets
    /\ chunkSerial = 0
    /\ lastOp = Op("new", [x |-> 0, z |-> 0], NoEntity)
    /\ moves = 0
    /\ unregCalls = 0
    /\ damageLog = << >>
    /\ budget = [moves |-> MaxMoves, unregisters |-> MaxUnregisters]
    /\ released = << >>
    /\ destroyed = {}
    /\ callerArrays = NothingKept
    /\ flight = NoPlane
    /\ heightLog = << >>

\* new Chunk(x, z, ...) for the next key of the window around (0, 0): the
\* mountain is placed against the registered runways and registered, then
\* the runway, when there is a runway texture, is placed against the
\* registered mountains and registered.
Construct(mStream, maxRadius, rStream) ==
    LET key == WindowKeys(0, 0)[chunkSerial + 1]
        mountain == NewMountain(key, mStream, maxRadius, globalRunways)
        mountains == Append(globalMountains, mountain)
    IN  /\ chunkSerial < MaxChunks
        /\ chunkSerial < Len(WindowKeys(0, 0))
        /\ chunkSerial' = chunkSerial + 1
        /\ globalMountains' = mountains
        /\ globalRunways' =
              IF handles.runwayTexture
              THEN Append(globalRunways, NewRunway(key, rStream, mountains))
              ELSE globalRunways
        /\ UNCHANGED <<currentChunk, chunks, activeTrees, activeBaobabTrees,
                       activeBuildings, scene, handles, lastOp, moves, unregCalls,
                       damageLog, flight, budget, heightLog, released, destroyed, callerArrays>>

ConstructAny ==
    \E mStream \in MountainStreams, maxRadius \in PeakRadii, rStream \in RunwayStreams :
        Construct(mStream, maxRadius, rStream)

GenNext == ConstructAny

GenSpec == GenInit /\ [][GenNext]_vars

\* C9: a mountain and a runway placed by the same chunk's generation are at
\* least (mountain base radius + 120 + 80) apart, or the runway was
\* positioned by the fallback branch after 10 failed attempts.
C9_SameChunkSeparation ==
    \A i \in 1..Len(globalMountains), j \in 1..Len(globalRunways) :
        globalMountains[i].chunk = globalRunways[j].chunk =>
            \/ ~Nearer(globalRunways[j], globalMountains[i],
                       globalMountains[i].baseRadius + 120 + 80)
            \/ (globalRunways[j].fallback /\ globalRunways[j].tries = 10)

\* C9 witness: one chunk's runway was accepted by the retry loop, and
\* another chunk's runway was positioned by the fallback branch within the
\* separation distance of that chunk's own mountain.
C9_Witness ==
    /\ \E j \in 1..Len(globalRunways) :
          ~globalRunways[j].fallback
    /\ \E i \in 1..Len(globalMountains), j \in 1..Len(globalRunways) :
          /\ globalMountains[i].chunk = globalRunways[j].chunk
          /\ globalRunways[j].fallback
          /\ Nearer(globalRunways[j], globalMountains[i],
                    globalMountains[i].baseRadius + 120 + 80)

-----------------------------------------------------------------------------
(* Boss-tree damage: damageTree of the game loop (part_001 1272-1297) and  *)
(* its two callers, the laser loop (1126-1150) and the bomb loop           *)
(* (1450-1475).  A tree is its userData: a function from the property      *)
(* names that are defined to their values.  In BossSpec activeBaobabTrees  *)
(* is the game loop's list of boss trees.                                   *)

\* baobabTreeModel.clone(): userData as loadBaobabTree sets it (assets.js 329-331)
BaobabClone == [isBossTree |-> TRUE, maxHP |-> 10, currentHP |-> 10]

\* tree.userData.maxHP || 10
MaxHPOr10(tree) ==
    IF "maxHP" \in DOMAIN tree /\ tree.maxHP # 0 THEN tree.maxHP ELSE 10

\* Mutant of damageTree: destroyed only when the health is below zero.
damageTreeBelowZero(tree, damage) ==
    LET hp == tree.currentHP - damage
    IN  [tree |-> ("currentHP" :> hp) @@ tree, result |-> hp < 0]

\* damageTree(tree, damage): the tree after the call and the value returned
damageTree(tree, damage) ==
    IF ~("isBossTree" \in DOMAIN tree /\ tree.isBossTree)
    THEN [tree |-> tree, result |-> FALSE]
    ELSE LET initialized == IF "currentHP" \notin DOMAIN tree
                            THEN ("currentHP" :> MaxHPOr10(tree)) @@ tree
                            ELSE tree
             hp == initialized.currentHP - damage
         IN  [tree |-> ("currentHP" :> hp) @@ initialized, result |-> hp <= 0]

\* One boss tree is in the game loop's list, as the Chunk constructor
\* cloned it.
BossInit ==
    /\ currentChunk = <<0, 0>>
    /\ chunks = << >>
    /\ activeTrees = << >>
    /\ activeBaobabTrees = << BaobabClone >>
    /\ activeBuildings = << >>
    /\ globalRunways = << >>
    /\ globalMountains = << >>
    /\ scene = {}
    /\ handles \in { h \in HandleSets : h.baobabTreeModel }
    /\ chunkSerial = 0
    /\ lastOp = Op("new", [x |-> 0, z |-> 0], NoEntity)
    /\ moves = 0
    /\ unregCalls = 0
    /\ damageLog = << >>
    /\ budget = [moves |-> MaxMoves, unregisters |-> MaxUnregisters]
    /\ released = << >>
    /\ destroyed = {}
    /\ callerArrays = NothingKept
    /\ flight = NoPlane
    /\ heightLog = << >>

\* A projectile hits the boss tree at place j of the list:
\*   const destroyed = damageTree(tree, damage);
\*   if (destroyed) { ...; activeBaobabTrees.splice(j, 1); ... }
Hit(j, damage) ==
    LET r == damageTree(activeBaobabTrees[j], damage)
    IN  /\ damageLog' = Append(damageLog, [damage |-> damage, destroyed |-> r.result,
                                           currentHP |-> r.tree.currentHP])
        /\ activeBaobabTrees' =
              IF r.result THEN Splice(activeBaobabTrees, j)
              ELSE [activeBaobabTrees EXCEPT ![j] = r.tree]
        /\ UNCHANGED <<currentChunk, chunks, activeTrees, activeBuildings,
                       globalRunways, globalMountains, scene, handles, chunkSerial,
                       lastOp, moves, unregCalls, flight, budget, heightLog, released,
                       destroyed, callerArrays>>

\* damageTree(tree, 1): "1 HP damage per laser hit"
LaserHit == \E j \in 1..Len(activeBaobabTrees) : Hit(j, 1)

\* damageTree(tree, 3): "bombs do 3 HP damage"
BombHit == \E j \in 1..Len(activeBaobabTrees) : Hit(j, 3)

BossNext == LaserHit \/ BombHit

BossSpec == BossInit /\ [][BossNext]_vars

\* the damage of the first i calls, added up
RECURSIVE Cumulative(_, _)
Cumulative(log, i) == IF i = 0 THEN 0 ELSE Cumulative(log, i - 1) + log[i].damage

\* C10: for a boss tree of maximum health 10, a damageTree call returns
\* true exactly when the damage of the calls so far has reached 10, so the
\* first such call is the one that reports destruction; hits of 3, 3, 3, 1
\* return false, false, false, true and leave health 0.
C10_DestroyedOnExactHit ==
    /\ \A i \in 1..Len(damageLog) :
          /\ damageLog[i].destroyed = (Cumulative(damageLog, i) >= 10)
          /\ damageLog[i].currentHP = 10 - Cumulative(damageLog, i)
          /\ \A k \in 1..(i - 1) : ~damageLog[k].destroyed
    /\ [i \in 1..Len(damageLog) |-> damageLog[i].damage] = << 3, 3, 3, 1 >>
          => /\ [i \in 1..4 |-> damageLog[i].destroyed] = << FALSE, FALSE, FALSE, TRUE >>
             /\ damageLog[4].currentHP = 0

\* C10 witness: the tree has taken hits of 3, 3, 3 and 1 and the last call
\* reported it destroyed.
C10_Witness ==
    /\ Len(damageLog) = 4
    /\ [i \in 1..4 |-> damageLog[i].damage] = << 3, 3, 3, 1 >>
    /\ damageLog[4].destroyed
    /\ activeBaobabTrees = << >>

-----------------------------------------------------------------------------
(* Leaving and re-entering a window: update alone, over more moves *)

\* chunk-changing update calls in one behaviour of ReentrySpec
MaxTrips == 3

ReentryInit == Start([moves |-> MaxTrips, unregisters |-> 0], HandleSets)

ReentryNext == UpdateAny

ReentrySpec == ReentryInit /\ [][ReentryNext]_vars

\* the Chunk instances dispose() was called on
DisposedSerials == { s \in 1..chunkSerial : Mesh(s) \in Range(released) }

\* C11: a coordinate that left the window and is loaded again has a new
\* Chunk instance: no disposed instance is in the chunk map, no object of a
\* disposed instance is in a registry collection or a query result, every
\* instance that is not loaded was disposed exactly once and no loaded
\* instance was disposed.
C11_ReentryIsFresh ==
    /\ LoadedSerials \cap DisposedSerials = {}
    /\ Len(chunks) = Cardinality(LoadedSerials)
    /\ \A e \in Registered : e.owner \notin DisposedSerials
    /\ \A s \in 1..chunkSerial :
          Count(released, Mesh(s)) = IF s \in LoadedSerials THEN 0 ELSE 1

\* C11 witness: the observer went from chunk (0,0) to (2,0) and back; the
\* coordinate (-1,0), first loaded as instance 2, which was disposed, is
\* loaded again.
C11_Witness ==
    /\ moves = 3 /\ currentChunk = <<0, 0>>
    /\ <<-1, 0>> \in LoadedKeys(chunks)
    /\ ChunkAt(chunks, <<-1, 0>>).serial > 9
    /\ Mesh(2) \in Range(released)

-----------------------------------------------------------------------------
(* Repeated unregister calls: one window, more calls *)

\* unregister* calls in one behaviour of IdemSpec
MaxCalls == 2

IdemInit == Start([moves |-> 1, unregisters |-> MaxCalls], HandleSets)

IdemNext == Next

IdemSpec == IdemInit /\ [][IdemNext]_vars

\* the registry collections and the chunks' lists of two worlds are the same
SameContents(w1, w2) ==
    /\ w1.activeTrees = w2.activeTrees
    /\ w1.activeBaobabTrees = w2.activeBaobabTrees
    /\ w1.activeBuildings = w2.activeBuildings
    /\ w1.globalRunways = w2.globalRunways
    /\ w1.globalMountains = w2.globalMountains
    /\ w1.chunks = w2.chunks

\* every object that is or was in the world
KnownObjects == Registered \cup Range(released) \cup destroyed \cup scene

\* From world w, each unregister method called with e leaves the contents
\* as they are when e is not in the method's collection, and a second call
\* with e changes nothing the first left.
IdempotentAt(w, e) ==
    /\ e \notin Range(w.activeTrees) => SameContents(unregisterTree(w, e), w)
    /\ SameContents(unregisterTree(unregisterTree(w, e), e), unregisterTree(w, e))
    /\ e \notin Range(w.activeBaobabTrees) => SameContents(unregisterBaobabTree(w, e), w)
    /\ SameContents(unregisterBaobabTree(unregisterBaobabTree(w, e), e),
                    unregisterBaobabTree(w, e))
    /\ e \notin Range(w.activeBuildings) => SameContents(unregisterBuilding(w, e), w)
    /\ SameContents(unregisterBuilding(unregisterBuilding(w, e), e),
                    unregisterBuilding(w, e))
    /\ e \notin Range(w.globalRunways) => SameContents(unregisterRunway(w, e), w)
    /\ SameContents(unregisterRunway(unregisterRunway(w, e), e), unregisterRunway(w, e))
    /\ e \notin Range(w.globalMountains) => SameContents(unregisterMountain(w, e), w)
    /\ SameContents(unregisterMountain(unregisterMountain(w, e), e),
                    unregisterMountain(w, e))

\* C12: an unregister call whose argument is not in the method's registry
\* collection (a repeated call, or an object never registered there) leaves
\* every registry collection and every chunk list unchanged; this holds for
\* the calls the behaviour makes and, from every state, for each of the
\* five unregister methods and every known object.
C12_UnregisterIdempotent ==
    [][ /\ (IsUnregister' /\ unregCalls' = unregCalls + 1
                /\ lastOp'.e \notin Range(RegistryOf(lastOp'.op)))
            => UNCHANGED <<activeTrees, activeBaobabTrees, activeBuildings,
                           globalRunways, globalMountains, chunks>>
        /\ \A e \in KnownObjects : IdempotentAt(World, e) ]_vars

\* C12 witness: unregisterTree was called twice with the same scattered
\* tree, whose chunk is loaded and lists another tree.
C12_Witness ==
    /\ unregCalls = 2 /\ Cardinality(destroyed) = 1
    /\ lastOp.op = "unregisterTree"
    /\ lastOp.e.kind = "tree" /\ lastOp.e.ref
    /\ \E i \in 1..Len(chunks) :
          chunks[i].serial = lastOp.e.owner /\ Len(chunks[i].trees) > 0

-----------------------------------------------------------------------------
(* Gameplay destruction and disposal (Spec) *)

\* C13: an object gameplay destroyed while its chunk was loaded is detached
\* from the chunk's list, so the chunk's disposal does not release it again:
\* no destroyed object is among the objects dispose passed to scene.remove,
\* and dispose released no object twice.
C13_ReleasedOnce ==
    /\ \A e \in destroyed : e \notin Range(released)
    /\ \A e \in Range(released) : Count(released, e) = 1

-----------------------------------------------------------------------------
(* Kept query results (LiveSpec): the game loop calls a query and keeps    *)
(* the array while it goes on calling update and unregister*.              *)

\* the array a caller gets: field tells whether it is the manager's own
\* array (getTrees, getBuildings) or one built for this call (getRunways,
\* getMountains)
Returned(arr, field) == [held |-> TRUE, live |-> field, arr |-> arr]

Query(name, result) ==
    /\ currentChunk # Unset
    /\ ~callerArrays[name].held
    /\ callerArrays' = [callerArrays EXCEPT ![name] = result]
    /\ UNCHANGED <<currentChunk, chunks, activeTrees, activeBaobabTrees,
                   activeBuildings, globalRunways, globalMountains, scene,
                   handles, chunkSerial, lastOp, moves, unregCalls, damageLog,
                   flight, budget, heightLog, released, destroyed>>

GetTrees ==
    /\ ~callerArrays.activeTrees.held
    /\ ~callerArrays.activeBaobabTrees.held
    /\ currentChunk # Unset
    /\ callerArrays' =
          [callerArrays EXCEPT
              !.activeTrees = Returned(getTrees.activeTrees, TRUE),
              !.activeBaobabTrees = Returned(getTrees.activeBaobabTrees, TRUE)]
    /\ UNCHANGED <<currentChunk, chunks, activeTrees, activeBaobabTrees,
                   activeBuildings, globalRunways, globalMountains, scene,
                   handles, chunkSerial, lastOp, moves, unregCalls, damageLog,
                   flight, budget, heightLog, released, destroyed>>

GetBuildings == Query("activeBuildings", Returned(getBuildings, TRUE))

GetRunways == Query("runways", Returned(getRunways, FALSE))

GetMountains == Query("mountains", Returned(getMountains, FALSE))

LiveInit == Init

LiveNext ==
    \/ Next
    \/ GetTrees
    \/ GetBuildings
    \/ GetRunways
    \/ GetMountains

LiveSpec == LiveInit /\ [][LiveNext]_vars

\* C14: an array a caller keeps from getTrees, getBuildings, getRunways or
\* getMountains shows the current contents of the registry after any later
\* register, unregister or update.
C14_QueryIsLive ==
    /\ callerArrays.activeTrees.held => callerArrays.activeTrees.arr = activeTrees
    /\ callerArrays.activeBaobabTrees.held
          => callerArrays.activeBaobabTrees.arr = activeBaobabTrees
    /\ callerArrays.activeBuildings.held
          => callerArrays.activeBuildings.arr = activeBuildings
    /\ callerArrays.runways.held => callerArrays.runways.arr = getRunways
    /\ callerArrays.mountains.held => callerArrays.mountains.arr = getMountains

-----------------------------------------------------------------------------
(* Settlement fallback (Spec) *)

\* C15: with a building template, every chunk a step constructs owns at
\* least one building when its construction is finished.
C15_AtLeastOneBuilding ==
    [][ handles.buildingModels =>
            \A i \in 1..Len(chunks') :
                chunks'[i].serial > chunkSerial => Len(chunks'[i].buildings) >= 1 ]_vars

-----------------------------------------------------------------------------
(* Disposal of every owned entity (Spec) *)

\* the entities in the lists of a chunk
Owned(c) ==
    Range(c.trees) \cup Range(c.baobabTrees) \cup Range(c.runways)
        \cup Range(c.buildings) \cup (IF c.mountain # NoEntity THEN {c.mountain} ELSE {})

\* C16: when a step disposes a chunk, every entity in the chunk's lists at
\* that moment is released by the disposal, is out of the scene and is out of
\* the registry afterwards.
C16_DisposalReleasesAll ==
    [][ \A i \in 1..Len(chunks) :
            chunks[i].serial \notin LoadedSerials' =>
                \A e \in Owned(chunks[i]) :
                    /\ e \in Range(released')
                    /\ e \notin scene'
                    /\ e \notin Registered' ]_vars

-----------------------------------------------------------------------------
(* Missing templates (HandleSpec): the manager is constructed with any     *)
(* subset of the four templates and update is called.                      *)

MaxHandleMoves == 2

\* every combination of present and missing templates
AllHandleSets ==
    [treeModel : BOOLEAN, baobabTreeModel : BOOLEAN,
     runwayTexture : BOOLEAN, buildingModels : BOOLEAN]

HandleInit == Start([moves |-> MaxHandleMoves, unregisters |-> 0], AllHandleSets)

HandleNext == UpdateAny

HandleSpec == HandleInit /\ [][HandleNext]_vars

\* every object of a kind that is in the scene, in a registry or in a list
\* of a loaded chunk
Present(kind) ==
    { e \in scene \cup Registered \cup Range(globalRunways) \cup Range(globalMountains)
             \cup UNION { Owned(chunks[i]) : i \in 1..Len(chunks) } : e.kind = kind }

\* C17: whatever templates are missing, every update returns with exactly
\* the window loaded, the categories without a template have no object at
\* all, and every loaded chunk has its terrain mesh and its mountain, which
\* need no template.
C17_MissingHandlesSkipCategory ==
    /\ lastOp.op = "update" =>
          /\ LoadedKeys(chunks) = Square(ChunkCoord(lastOp.pos))
          /\ Len(chunks) = Cardinality(LoadedKeys(chunks))
    /\ ~handles.treeModel => Present("tree") = {}
    /\ ~handles.baobabTreeModel => Present("baobab") = {}
    /\ ~handles.runwayTexture => Present("runway") = {}
    /\ ~handles.buildingModels => Present("building") = {}
    /\ \A i \in 1..Len(chunks) :
          /\ chunks[i].mesh \in scene
          /\ chunks[i].mountain \in scene
          /\ chunks[i].mountain \in Range(globalMountains)

\* C17 witness: without a tree template and with the three others, a second
\* window has been loaded that has boss trees, runways and buildings.
C17_Witness ==
    /\ ~handles.treeModel /\ handles.baobabTreeModel
    /\ handles.runwayTexture /\ handles.buildingModels
    /\ moves = 2 /\ lastOp.op = "update"
    /\ Present("tree") = {}
    /\ Len(activeBaobabTrees) > 0 /\ Len(activeBuildings) > 0
    /\ Len(globalRunways) = 9

-----------------------------------------------------------------------------
(* getHeight, terrain.js 747-752 (HeightSpec).  Reals are fixed-point      *)
(* integers in units of 1 / Scale; angles are in the same unit.            *)

Scale == 10000

\* pi in units of 1 / Scale
Pi == 31416

\* the sine series a - a^3/3! + a^5/5! - a^7/7! for 0 <= a <= Pi / 2
SinSeries(a) ==
    LET a2 == (a * a) \div Scale
        t3 == (a * a2) \div (6 * Scale)
        t5 == (t3 * a2) \div (20 * Scale)
        t7 == (t5 * a2) \div (42 * Scale)
    IN  a - t3 + t5 - t7

\* Math.sin: the angle is reduced to (-Pi, Pi], folded to [0, Pi / 2] by
\* sin(Pi - a) = sin(a) and sin(-a) = -sin(a)
Sin(angle) ==
    LET r  == angle % (2 * Pi)
        a  == IF r > Pi THEN r - 2 * Pi ELSE r
        m  == IF a < 0 THEN -a ELSE a
        f  == IF 2 * m > Pi THEN Pi - m ELSE m
    IN  IF a < 0 THEN -SinSeries(f) ELSE SinSeries(f)

\* Math.cos
Cos(angle) == Sin(angle + Pi \div 2)

\* Mutant of getHeight: the height also depends on how many chunks the
\* manager has constructed.
getHeightOfLoaded(x, z) ==
    (Sin(x * (Scale \div 20)) * Cos(z * (Scale \div 20)) * 5) \div Scale
        + Sin(x * (Scale \div 100)) * 5 + 4 * Scale + chunkSerial

\* getHeight(x, z) =
\*   Math.sin(x * 0.05) * Math.cos(z * 0.05) * 5 + Math.sin(x * 0.01) * 5 + 4
getHeight(x, z) ==
    (Sin(x * (Scale \div 20)) * Cos(z * (Scale \div 20)) * 5) \div Scale
        + Sin(x * (Scale \div 100)) * 5 + 4 * Scale

MaxSamples == 2

\* the points getHeight is called with
SamplePoints == { Pt(0, 0), Pt(1100, 0), Pt(-37, 250) }

\* the game loop calls getHeight with each of the points
Sample ==
    /\ Len(heightLog) < MaxSamples
    /\ heightLog' = Append(heightLog,
                           [h |-> [p \in SamplePoints |-> getHeight(p.x, p.z)],
                            serial |-> chunkSerial,
                            calls |-> unregCalls])
    /\ UNCHANGED <<currentChunk, chunks, activeTrees, activeBaobabTrees,
                   activeBuildings, globalRunways, globalMountains, scene,
                   handles, chunkSerial, lastOp, moves, unregCalls, damageLog,
                   flight, budget, released, destroyed, callerArrays>>

\* two window moves and one unregister call around the getHeight calls
HeightInit == Start([moves |-> 2, unregisters |-> 1], HandleSets)

HeightNext == Next \/ Sample

HeightSpec == HeightInit /\ [][HeightNext]_vars

-----------------------------------------------------------------------------
(* Bounded retry loops (GenSpec) *)

\* C19: every chunk construction ends within its step: the mountain was
\* placed after at most 12 attempts and the runway after at most 10, a
\* placement by fallback comes after exactly that many failed attempts, and
\* every constructed chunk has its mountain and, with a runway texture, its
\* runway registered.
C19_BoundedRetries ==
    /\ \A i \in 1..Len(globalMountains) :
          /\ globalMountains[i].tries \in 1..maxMountainAttempts
          /\ globalMountains[i].fallback => globalMountains[i].tries = maxMountainAttempts
    /\ \A j \in 1..Len(globalRunways) :
          /\ globalRunways[j].tries \in 1..maxAttempts
          /\ globalRunways[j].fallback => globalRunways[j].tries = maxAttempts
    /\ Len(globalMountains) = chunkSerial
    /\ handles.runwayTexture => Len(globalRunways) = chunkSerial

\* C19 witness: a mountain placed by fallback after 12 rejected candidates
\* and a runway placed by fallback after 10.
C19_Witness ==
    /\ \E i \in 1..Len(globalMountains) :
          globalMountains[i].fallback /\ globalMountains[i].tries = 12
    /\ \E j \in 1..Len(globalRunways) :
          globalRunways[j].fallback /\ globalRunways[j].tries = 10

-----------------------------------------------------------------------------
(* Mountain separation across chunks (GenSpec).  The i-th mountain and,    *)
(* with a runway texture, the i-th runway belong to the i-th chunk         *)
(* constructed, so those with a smaller index were registered before.      *)

\* C20: a mountain accepted by the retry loop is at least 150 + the
\* runway's safe radius + 80 from every runway registered before it, and
\* at least 150 + the mountain's base radius + 80 from every mountain
\* registered before it.
C20_MountainSeparation ==
    \A i \in 1..Len(globalMountains) :
        ~globalMountains[i].fallback =>
            /\ \A j \in 1..Len(globalRunways) :
                  j < i => ~Nearer(globalMountains[i], globalRunways[j],
                                   MOUNTAIN_RADIUS_ESTIMATE + globalRunways[j].safeRadius
                                       + RUNWAY_MOUNTAIN_BUFFER)
            /\ \A k \in 1..(i - 1) :
                  ~Nearer(globalMountains[i], globalMountains[k],
                          MOUNTAIN_RADIUS_ESTIMATE + globalMountains[k].baseRadius
                              + RUNWAY_MOUNTAIN_BUFFER)

-----------------------------------------------------------------------------
(* Separation across chunks (CrossSpec): chunks are constructed one after  *)
(* the other and disposed in between, as the updates of a moving observer  *)
(* do; a disposed chunk's mountain and runway leave the registries.        *)

\* Chunk.dispose as far as the placement registries go: unregisterRunway
\* for the chunk's runways and unregisterMountain for its mountain
Unload(key) ==
    /\ \E i \in 1..Len(globalMountains) : globalMountains[i].chunk = key
    /\ globalMountains' = SelectSeq(globalMountains, LAMBDA m : m.chunk # key)
    /\ globalRunways' = SelectSeq(globalRunways, LAMBDA r : r.chunk # key)
    /\ UNCHANGED <<currentChunk, chunks, activeTrees, activeBaobabTrees,
                   activeBuildings, scene, handles, chunkSerial, lastOp, moves,
                   unregCalls, damageLog, flight, budget, heightLog, released, destroyed,
                   callerArrays>>

UnloadAny == \E n \in 1..MaxChunks : Unload(WindowKeys(0, 0)[n])

CrossInit == GenInit

CrossNext == ConstructAny \/ UnloadAny

CrossSpec == CrossInit /\ [][CrossNext]_vars

\* the place of a chunk in the order of construction
KeyOrder(key) == CHOOSE n \in 1..Len(WindowKeys(0, 0)) : WindowKeys(0, 0)[n] = key

\* C21: a registered mountain M and a registered runway R are at least
\* M's base radius + R's safe radius + 80 apart, unless the one placed later
\* was positioned by its fallback branch.  A chunk places its mountain
\* before its runway.
C21_CrossChunkSeparation ==
    \A i \in 1..Len(globalMountains), j \in 1..Len(globalRunways) :
        LET M == globalMountains[i]
            R == globalRunways[j]
            later == IF KeyOrder(R.chunk) >= KeyOrder(M.chunk) THEN R ELSE M
        IN  \/ later.fallback
            \/ ~Nearer(M, R, M.baseRadius + R.safeRadius + RUNWAY_MOUNTAIN_BUFFER)

\* C21 witness: a mountain that the retry loop accepted after it had
\* rejected a candidate is registered together with the runway of a chunk
\* constructed before it.
C21_Witness ==
    \E i \in 1..Len(globalMountains), j \in 1..Len(globalRunways) :
        /\ KeyOrder(globalRunways[j].chunk) < KeyOrder(globalMountains[i].chunk)
        /\ ~globalMountains[i].fallback
        /\ globalMountains[i].tries > 1
        /\ ~globalRunways[j].fallback

-----------------------------------------------------------------------------
(* Fallback placement (GenSpec).  When the i-th chunk places its mountain  *)
(* the runways of the chunks before it are registered; when it places its  *)
(* runway the mountains up to its own are.                                 *)

\* n is an entry of list that no entry is nearer to the chunk centre than
IsNearest(list, center, n) ==
    /\ n \in Range(list)
    /\ \A e \in Range(list) : DistSq(center, n) <= DistSq(center, e)

\* C22: a mountain placed by fallback is 0.45 x chunk size from the chunk
\* centre, opposite the registered runway nearest to the chunk centre; a
\* runway placed by fallback is 0.30 x chunk size from the chunk centre,
\* opposite the registered mountain nearest to the chunk centre.
C22_FallbackOppositeNearest ==
    /\ \A i \in 1..Len(globalMountains) :
          globalMountains[i].fallback =>
              \E n \in Range(SubSeq(globalRunways, 1, i - 1)) :
                  /\ IsNearest(SubSeq(globalRunways, 1, i - 1),
                               ChunkCenter(globalMountains[i].chunk), n)
                  /\ Pt(globalMountains[i].x, globalMountains[i].z)
                        = Opposite(ChunkCenter(globalMountains[i].chunk), n,
                                   (chunkSize * 45) \div 100)
    /\ \A j \in 1..Len(globalRunways) :
          globalRunways[j].fallback =>
              \E n \in Range(SubSeq(globalMountains, 1, j)) :
                  /\ IsNearest(SubSeq(globalMountains, 1, j),
                               ChunkCenter(globalRunways[j].chunk), n)
                  /\ Pt(globalRunways[j].x, globalRunways[j].z)
                        = Opposite(ChunkCenter(globalRunways[j].chunk), n,
                                   (chunkSize * 30) \div 100)

-----------------------------------------------------------------------------
(* Settlement, terrain.js 1390-1485 (CitySpec): a Chunk constructor with   *)
(* its mountain, its runway and its buildings in the plane.  A building is *)
(* [x, z, hx, hz, chunk, fallback]: position, half extents of its placed   *)
(* bounding box, owning chunk, and whether the fallback placed it.         *)

MaxCityChunks == 1

\* a candidate: offset from the chunk centre and the half extents the
\* chosen prefab and scale give
Cand(x, z, hx, hz) == [x |-> x, z |-> z, hx |-> hx, hz |-> hz]

\* The candidates the city loops draw, in order.
CityStreams ==
    { << Cand(150, 0, 5, 5), Cand(220, 0, 5, 5), Cand(0, 250, 5, 5) >>,
      << Cand(-200, 100, 5, 5), Cand(-195, 104, 8, 4), Cand(0, 200, 5, 5) >>,
      << Cand(-200, 100, 5, 5), Cand(-186, 100, 8, 4), Cand(-200, 112, 5, 5) >>,
      << Cand(220, 0, 5, 5), Cand(220, 0, 8, 4), Cand(220, 0, 5, 5) >> }

\* The point the fallback draws, within 100 of the chunk centre on each axis.
FallbackPoints == { Cand(60, 0, 5, 5), Cand(-60, 0, 8, 4) }

\* Mutant of Overlaps: the test is on the x axis alone against the new
\* building's own extent.
OverlapsOwnExtent(b, existing) ==
    LET dx == IF b.x >= existing.x THEN b.x - existing.x ELSE existing.x - b.x
    IN  dx < b.hx + 2

\* dx < (halfPlaced.x + he.x + buffer) && dz < (halfPlaced.z + he.z + buffer)
Overlaps(b, existing) ==
    LET dx == IF b.x >= existing.x THEN b.x - existing.x ELSE existing.x - b.x
        dz == IF b.z >= existing.z THEN b.z - existing.z ELSE existing.z - b.z
    IN  dx < b.hx + existing.hx + 2 /\ dz < b.hz + existing.hz + 2

\* placeBuilding(bx, bz) of the geometric model: returns this.buildings
placeBuildingAt(buildings, b, hasPrefab) ==
    IF ~hasPrefab THEN buildings
    ELSE IF \E i \in 1..Len(buildings) : Overlaps(b, buildings[i]) THEN buildings
    ELSE Append(buildings, b)

\* the city loops, lines 1447-1475
RECURSIVE Cities(_, _, _, _, _, _, _)
Cities(buildings, key, stream, i, runways, mountain, hasPrefab) ==
    IF i > Len(stream) THEN buildings
    ELSE LET c == stream[i]
             b == [x |-> ChunkCenter(key).x + c.x, z |-> ChunkCenter(key).z + c.z,
                   hx |-> c.hx, hz |-> c.hz, chunk |-> key, fallback |-> FALSE]
             skip == \/ \E j \in 1..Len(runways) : Nearer(b, runways[j], 100)
                     \/ Nearer(b, mountain, mountain.baseRadius + 40)
                     \/ getHeight(b.x, b.z) < -2 * Scale
         IN  Cities(IF skip THEN buildings ELSE placeBuildingAt(buildings, b, hasPrefab),
                    key, stream, i + 1, runways, mountain, hasPrefab)

\* "Fallback: ensure at least one building per chunk", lines 1477-1485
Fallback(buildings, key, f, hasPrefab) ==
    LET b == [x |-> ChunkCenter(key).x + f.x, z |-> ChunkCenter(key).z + f.z,
              hx |-> f.hx, hz |-> f.hz, chunk |-> key, fallback |-> TRUE]
    IN  IF Len(buildings) = 0 /\ getHeight(b.x, b.z) > -2 * Scale
        THEN placeBuildingAt(buildings, b, hasPrefab)
        ELSE buildings

CityInit == GenInit

\* new Chunk(x, z, ...): mountain, runway, then the settlement
ConstructSettled(mStream, maxRadius, rStream, cStream, f) ==
    LET key == WindowKeys(0, 0)[chunkSerial + 1]
        mountain == NewMountain(key, mStream, maxRadius, globalRunways)
        mountains == Append(globalMountains, mountain)
        runways == IF handles.runwayTexture
                   THEN << NewRunway(key, rStream, mountains) >>
                   ELSE << >>
        built == Fallback(Cities(<< >>, key, cStream, 1, runways, mountain,
                                 handles.buildingModels),
                          key, f, handles.buildingModels)
    IN  /\ chunkSerial < MaxCityChunks
        /\ chunkSerial < Len(WindowKeys(0, 0))
        /\ chunkSerial' = chunkSerial + 1
        /\ globalMountains' = mountains
        /\ globalRunways' = globalRunways \o runways
        /\ chunks' = Append(chunks, [key |-> key, buildings |-> built])
        /\ activeBuildings' = activeBuildings \o built
        /\ UNCHANGED <<currentChunk, activeTrees, activeBaobabTrees, scene, handles,
                       lastOp, moves, unregCalls, damageLog, flight, budget, heightLog,
                       released, destroyed, callerArrays>>

\* maxRadius of the chunks of CitySpec: the smallest and the largest
CityPeakRadii == { 40, 70 }

ConstructSettledAny ==
    \E mStream \in MountainStreams, maxRadius \in CityPeakRadii,
       rStream \in RunwayStreams,
       cStream \in CityStreams, f \in FallbackPoints :
        ConstructSettled(mStream, maxRadius, rStream, cStream, f)

\* scene.remove(bld); terrainManager.unregisterBuilding(bld) by the game
\* loop: the building leaves activeBuildings and its chunk's list
Raze(b) ==
    /\ activeBuildings' = Without(activeBuildings, b)
    /\ chunks' = [ k \in 1..Len(chunks) |->
                     IF chunks[k].key = b.chunk
                     THEN [chunks[k] EXCEPT !.buildings = RemoveFirst(@, b)]
                     ELSE chunks[k] ]
    /\ UNCHANGED <<currentChunk, activeTrees, activeBaobabTrees, globalRunways,
                   globalMountains, scene, handles, chunkSerial, lastOp, moves,
                   unregCalls, damageLog, flight, budget, heightLog, released, destroyed,
                   callerArrays>>

RazeAny == \E b \in Range(activeBuildings) : Raze(b)

CityNext == ConstructSettledAny \/ RazeAny

CitySpec == CityInit /\ [][CityNext]_vars

\* the runways and the mountain of the chunk at key
RunwaysOf(key) == SelectSeq(globalRunways, LAMBDA r : r.chunk = key)

MountainsOf(key) == SelectSeq(globalMountains, LAMBDA m : m.chunk = key)

\* C23: every building of a chunk is at least 100 from every runway of the
\* chunk and at least the mountain's base radius + 40 from the chunk's
\* mountain.
C23_BuildingsKeepClear ==
    \A k \in 1..Len(chunks) :
        \A b \in Range(chunks[k].buildings) :
            /\ \A r \in Range(RunwaysOf(chunks[k].key)) : ~Nearer(b, r, 100)
            /\ \A m \in Range(MountainsOf(chunks[k].key)) :
                  ~Nearer(b, m, m.baseRadius + 40)

-----------------------------------------------------------------------------
(* Clearing around the runway (ClearSpec): updates whose chunks draw trees *)
(* of every kind inside the runway's clearing radius.  For a tree the zone *)
(* "nearRunway" is: within 80 of the centre of the chunk's runway.         *)

MaxClearMoves == 2

Wooded ==
    [ scatter  |-> << "nearRunway", "open" >>,
      boss     |-> << "nearRunway", "open" >>,
      ring     |-> << "nearRunway", "open" >>,
      city     |-> << "open" >>,
      fallback |-> "land" ]

ClearStreams ==
    { << Wooded, Barren, Lean >>, << Barren, Barren, Barren, Wooded >>,
      << Barren, Wooded >>, << Lean, Barren, Barren, Barren, Wooded >> }

ClearInit == Start([moves |-> MaxClearMoves, unregisters |-> 0], HandleSets)

ClearNext == \E pos \in Positions, rnd \in ClearStreams : Update(pos, rnd)

ClearSpec == ClearInit /\ [][ClearNext]_vars

\* C24: no tree of a chunk that has a runway, in its trees list or in its
\* boss-tree list, is within the clearing radius of that runway.
C24_RunwayAreaClear ==
    \A k \in 1..Len(chunks) :
        Len(chunks[k].runways) > 0 =>
            \A t \in Range(chunks[k].trees) \cup Range(chunks[k].baobabTrees) :
                t.zone # "nearRunway"

-----------------------------------------------------------------------------
(* Destroyed entities stay destroyed (Spec) *)

\* C25: an object gameplay destroyed is in none of the lists getTrees and
\* getBuildings return, in any later state.
C25_DestroyedStaysGone ==
    \A e \in destroyed :
        /\ e \notin Range(getTrees.activeTrees)
        /\ e \notin Range(getTrees.activeBaobabTrees)
        /\ e \notin Range(getBuildings)

-----------------------------------------------------------------------------
(* Separation kept by the fallbacks (GenSpec) *)

\* C26: a mountain placed by fallback is at least 150 + safe radius + 80
\* from the registered runway it was placed opposite to, and a runway
\* placed by fallback is at least 120 + base radius + 80 from the
\* registered mountain it was placed opposite to.
C26_FallbackKeepsDistance ==
    /\ \A i \in 1..Len(globalMountains) :
          globalMountains[i].fallback =>
              \A n \in Range(SubSeq(globalRunways, 1, i - 1)) :
                  Pt(globalMountains[i].x, globalMountains[i].z)
                        = Opposite(ChunkCenter(globalMountains[i].chunk), n,
                                   (chunkSize * 45) \div 100)
                    => ~Nearer(globalMountains[i], n,
                               MOUNTAIN_RADIUS_ESTIMATE + n.safeRadius
                                   + RUNWAY_MOUNTAIN_BUFFER)
    /\ \A j \in 1..Len(globalRunways) :
          globalRunways[j].fallback =>
              \A n \in Range(SubSeq(globalMountains, 1, j)) :
                  Pt(globalRunways[j].x, globalRunways[j].z)
                        = Opposite(ChunkCenter(globalRunways[j].chunk), n,
                                   (chunkSize * 30) \div 100)
                    => ~Nearer(globalRunways[j], n,
                               RUNWAY_SAFE_RADIUS + n.baseRadius
                                   + RUNWAY_MOUNTAIN_BUFFER)

\* C26 witness: a runway placed by fallback opposite a mountain of the
\* largest base radius, and a mountain placed by fallback opposite a runway.
C26_Witness ==
    /\ \E j \in 1..Len(globalRunways), n \in Range(globalMountains) :
          /\ globalRunways[j].fallback
          /\ n.baseRadius = 98
          /\ Pt(globalRunways[j].x, globalRunways[j].z)
                = Opposite(ChunkCenter(globalRunways[j].chunk), n, 300)
    /\ \E i \in 1..Len(globalMountains), n \in Range(globalRunways) :
          /\ globalMountains[i].fallback
          /\ Pt(globalMountains[i].x, globalMountains[i].z)
                = Opposite(ChunkCenter(globalMountains[i].chunk), n, 450)

-----------------------------------------------------------------------------
(* Buildings of a chunk do not overlap (CitySpec) *)

\* C27: no two buildings of the same chunk overlap: for two different
\* buildings of a chunk's list it is never the case that both |dx| is below
\* the sum of their x half extents + 2 and |dz| is below the sum of their z
\* half extents + 2.
C27_NoOverlap ==
    \A k \in 1..Len(chunks) :
        \A i, j \in 1..Len(chunks[k].buildings) :
            LET a == chunks[k].buildings[i]
                b == chunks[k].buildings[j]
            IN  i # j =>
                    ~ /\ a.x - b.x < a.hx + b.hx + 2
                      /\ b.x - a.x < a.hx + b.hx + 2
                      /\ a.z - b.z < a.hz + b.hz + 2
                      /\ b.z - a.z < a.hz + b.hz + 2

\* C27 witness: a chunk holds two buildings that are nearer than the sum of
\* their half extents + 2 along x and exactly that sum apart along z.
C27_Witness ==
    \E k \in 1..Len(chunks) :
        \E i, j \in 1..Len(chunks[k].buildings) :
            LET a == chunks[k].buildings[i]
                b == chunks[k].buildings[j]
            IN  /\ i # j
                /\ a.x - b.x < a.hx + b.hx + 2
                /\ b.x - a.x < a.hx + b.hx + 2
                /\ a.z - b.z = a.hz + b.hz + 2

-----------------------------------------------------------------------------
(* The chunk grid (GridSpec): update calls at positions on both sides of *)
(* the chunk borders, negative coordinates included.                      *)

MaxGridMoves == 2

GridPositions ==
    { [x |-> px, z |-> pz] :
        px \in { -1500, -501, -500, -1, 499, 500, 1499 }, pz \in { -501, 499 } }

GridInit == Start([moves |-> MaxGridMoves, unregisters |-> 0], HandleSets)

GridNext == \E pos \in GridPositions, rnd \in Streams : Update(pos, rnd)

GridSpec == GridInit /\ [][GridNext]_vars

\* the half-open interval [k*chunkSize - chunkSize/2, k*chunkSize + chunkSize/2)
InCell(coord, k) ==
    /\ k * chunkSize - chunkSize \div 2 <= coord
    /\ coord < k * chunkSize + chunkSize \div 2

\* C28: after update(pos) the current chunk is, on each axis, the one chunk
\* coordinate k whose half-open interval
\* [k*chunkSize - chunkSize/2, k*chunkSize + chunkSize/2) holds the
\* coordinate, negative coordinates included; the origin chunk is current
\* exactly for coordinates in [-500, 500).
C28_HalfOpenCells ==
    lastOp.op = "update" =>
        /\ \A k \in -3..3 :
              /\ InCell(lastOp.pos.x, k) <=> k = currentChunk[1]
              /\ InCell(lastOp.pos.z, k) <=> k = currentChunk[2]
        /\ currentChunk[1] = 0 <=> (-500 <= lastOp.pos.x /\ lastOp.pos.x < 500)
        /\ currentChunk[2] = 0 <=> (-500 <= lastOp.pos.z /\ lastOp.pos.z < 500)

\* C28 witness: an update just below the lower border of the origin chunk
\* on both axes has made chunk (-1, -1) current.
C28_Witness ==
    /\ lastOp.op = "update"
    /\ lastOp.pos = [x |-> -501, z |-> -501]
    /\ currentChunk = <<-1, -1>>

-----------------------------------------------------------------------------
(* The game loop (FlightSpec): init, animate and the reset timer of        *)
(* triggerCrash, part_001 127-182, 230-465, 740-793 and 870-919.  The      *)
(* plane's position is kept as where: "runway" when it is within a         *)
(* runway's bounds and below its surface + 2, "high" above altitude 30,    *)
(* "low" otherwise; speed is 0 when stopped, 1 below 400 km/h and 2 from   *)
(* 400 km/h on.                                                            *)

MaxFlightMoves == 1

MaxPending == 2

\* The collision conditions the plane satisfies in one frame.
HitSets ==
    { {}, {"ground"}, {"ground", "tree"}, {"tree", "baobab"}, {"building"},
      {"mountain"} }

\* triggerCrash(): isCrashed = true, createExplosion, setTimeout(..., 2000)
triggerCrash(f) ==
    [f EXCEPT !.isCrashed = TRUE, !.explosions = @ + 1, !.timers = @ + 1]

\* startTaxi(runway); far tells that the target is 0.5 or more away
startTaxi(f, far) ==
    IF f.isTaxiing THEN f
    ELSE [f EXCEPT !.isTaxiing = TRUE, !.taxiLeft = IF far THEN 1 ELSE 0]

\* updateTaxi(delta)
updateTaxi(f) ==
    IF f.taxiLeft = 0
    THEN [f EXCEPT !.isTaxiing = FALSE, !.speed = 0, !.event = "arrived"]
    ELSE [f EXCEPT !.taxiLeft = @ - 1, !.where = "runway", !.event = "taxiing"]

\* one collision test of animate, lines 367-465
Collide(f, condition, hits) == IF condition \in hits THEN triggerCrash(f) ELSE f

\* the runway check of animate, lines 346-361, for a plane below the
\* runway's surface + 2
Touch(f, far) ==
    IF f.readyToLand
    THEN IF f.speed < 2
         THEN [startTaxi(f, far) EXCEPT !.readyToLand = FALSE, !.climbed = FALSE,
                                        !.event = "taxi"]
         ELSE [triggerCrash(f) EXCEPT !.event = "runwayCrash"]
    ELSE [f EXCEPT !.event = "takingOff"]

\* the flying branch of animate after terrainManager.update: updateControls
\* has moved the plane to where `to' at speed sp
Fly(f, to, sp, hits, far) ==
    LET moved == [f EXCEPT !.where = to, !.speed = sp]
        ready == IF to = "high"
                 THEN [moved EXCEPT !.readyToLand = TRUE, !.climbed = TRUE]
                 ELSE moved
    IN  IF to = "runway" THEN Touch(ready, far)
        ELSE LET ground   == Collide(ready, "ground", hits)
                 tree     == Collide(ground, "tree", hits)
                 baobab   == Collide(tree, "baobab", hits)
                 building == Collide(baobab, "building", hits)
                 mountain == Collide(building, "mountain", hits)
             IN  [mountain EXCEPT !.event = IF hits = {} THEN "fly" ELSE "crash"]

\* init(): terrainManager.update(new THREE.Vector3(0, 0, 0)), then the plane
\* is put on the start runway, or at (0, 10, 0) when there is none
Load(rnd) ==
    LET w == update(World, [x |-> 0, z |-> 0], rnd)
    IN  /\ ~flight.plane
        /\ moves < budget.moves
        /\ moves' = moves + 1
        /\ lastOp' = Op("update", [x |-> 0, z |-> 0], NoEntity)
        /\ SetWorld(w)
        /\ flight' = [flight EXCEPT
                         !.plane = TRUE,
                         !.where = IF Gather(w.chunks, "runways", 1) # << >>
                                   THEN "runway" ELSE "low",
                         !.event = "load"]
        /\ UNCHANGED <<handles, unregCalls, damageLog, budget, heightLog>>

\* animate() while the plane is taxiing
TaxiFrame ==
    /\ flight.plane /\ ~flight.isCrashed /\ flight.isTaxiing
    /\ flight' = updateTaxi(flight)
    /\ UNCHANGED <<currentChunk, chunks, activeTrees, activeBaobabTrees,
                   activeBuildings, globalRunways, globalMountains, scene,
                   handles, chunkSerial, lastOp, moves, unregCalls, damageLog,
                   budget, heightLog, released, destroyed, callerArrays>>

\* animate() while the plane is flying, with the plane at pos
FlyFrame(pos, rnd, to, sp, hits, far) ==
    LET moving == ChunkCoord(pos) # currentChunk
        w == update(World, pos, rnd)
        mountains == SelectSeq([ i \in 1..Len(w.chunks) |-> w.chunks[i].mountain ],
                               LAMBDA m : m # NoEntity)
    IN  /\ flight.plane /\ ~flight.isCrashed /\ ~flight.isTaxiing
        /\ moving => moves < budget.moves
        /\ sp - flight.speed \in -1..1
        /\ sp = 0 => to = flight.where
        /\ {flight.where, to} # {"runway", "high"}
        /\ to = "runway" => Gather(w.chunks, "runways", 1) # << >>
        /\ to = "high" => hits \subseteq {"mountain"}
        /\ "tree" \in hits => w.activeTrees # << >>
        /\ "baobab" \in hits => w.activeBaobabTrees # << >>
        /\ "building" \in hits => w.activeBuildings # << >>
        /\ "mountain" \in hits => mountains # << >>
        /\ flight.timers + Cardinality(hits) <= MaxPending
        /\ moves' = IF moving THEN moves + 1 ELSE moves
        /\ lastOp' = Op("update", pos, NoEntity)
        /\ SetWorld(w)
        /\ flight' = Fly(flight, to, sp, hits, far)
        /\ UNCHANGED <<handles, unregCalls, damageLog, budget, heightLog>>

\* the callback of the setTimeout of triggerCrash, lines 885-918
ResetTimer ==
    /\ flight.timers > 0
    /\ flight' = [flight EXCEPT
                     !.timers = @ - 1,
                     !.where = IF getRunways # << >> THEN "runway" ELSE "low",
                     !.speed = 0,
                     !.isCrashed = FALSE,
                     !.explosions = 0,
                     !.climbed = FALSE,
                     !.event = "respawn"]
    /\ UNCHANGED <<currentChunk, chunks, activeTrees, activeBaobabTrees,
                   activeBuildings, globalRunways, globalMountains, scene,
                   handles, chunkSerial, lastOp, moves, unregCalls, damageLog,
                   budget, heightLog, released, destroyed, callerArrays>>

LoadAny == \E rnd \in Streams : Load(rnd)

FlyFrameAny ==
    \E pos \in Positions, rnd \in Streams, to \in {"runway", "low", "high"},
       sp \in 0..2, hits \in HitSets, far \in BOOLEAN :
        FlyFrame(pos, rnd, to, sp, hits, far)

FlightInit == Start([moves |-> MaxFlightMoves, unregisters |-> 0], HandleSets)

FlightNext == LoadAny \/ TaxiFrame \/ FlyFrameAny \/ ResetTimer

FlightSpec == FlightInit /\ [][FlightNext]_vars

\* C29: while isCrashed is set there is exactly one explosion of this crash
\* and exactly one pending reset timer, whatever collision conditions the
\* plane satisfied in the frame of the crash.
C29_CrashHandledOnce ==
    flight.isCrashed => flight.explosions = 1 /\ flight.timers = 1

\* C30: a frame starts taxiing or crashes the plane for touching a runway
\* too fast only if the plane has been above altitude 30 since it last
\* touched down or respawned.
C30_TouchdownNeedsClimb ==
    [][ flight'.event \in {"taxi", "runwayCrash"} => flight.climbed ]_vars

====
